---- MODULE Spec2Model ----
(***************************************************************************)
(* Model of the data layer of the metrics dashboard backend                *)
(* (backend/data_loader.py) and of the period comparison of                *)
(* backend/app.py.                                                         *)
(*                                                                         *)
(* Encoding of values.                                                     *)
(*   - A text is the sequence of its ASCII codes ("a1" is <<97, 49>>), so  *)
(*     that SQLite's byte-wise comparison, LIKE and Python's str.lower()   *)
(*     are computed, not assumed.                                          *)
(*   - An optional value (Python None / SQL NULL) is a sequence of length  *)
(*     at most one: None == <<>>, Some(x) == <<x>>.                        *)
(*   - A REAL column holds Some(n), n an integer (the CSVs of the model    *)
(*     hold integer-valued numbers only), or None.                         *)
(***************************************************************************)
EXTENDS Integers, Sequences, FiniteSets, TLC

VARIABLES
    db,            \* committed content of table metrics, in rowid order
    metricsCsv,    \* the file METRICS_CSV: None (absent) or Some(csv)
    pc,            \* per request thread: where it stands
    loc,           \* per request thread: its local variables
    hist,          \* history: the import_csv_chunks calls that ran
    req,           \* sequential client: the request being served
    resp,          \* sequential client: result of the last operation
    pager,         \* sequential client: the page walk in progress
    nCols,         \* import batch: len(chunk.columns)
    rowsPerInsert, \* import batch: chunksize handed to to_sql
    cmp,           \* period comparison: its inputs and its result
    progress,      \* upload: IMPORT_PROGRESS[job_id]["stage"]
    upload,        \* upload: where import_metrics stands and its locals
    twin           \* second run: table metrics with other cost_micros values

vars == <<db, metricsCsv, pc, loc, hist, req, resp, pager, nCols, rowsPerInsert, cmp, progress, upload, twin>>

----------------------------------------------------------------------------
(* Optional values *)

None == <<>>

Some(x) == <<x>>

IsNone(o) == o = <<>>

Val(o) == o[1]

\* Python truthiness of an optional text: None and "" are both falsy.
Truthy(o) == ~IsNone(o) /\ Val(o) # <<>>

Max(a, b) == IF a >= b THEN a ELSE b

Min(a, b) == IF a <= b THEN a ELSE b

----------------------------------------------------------------------------
(* Text *)

\* str.lower() / SQLite's ASCII case folding on one character code
LowerChar(c) == IF c >= 65 /\ c <= 90 THEN c + 32 ELSE c

LowerText(t) == [i \in 1..Len(t) |-> LowerChar(t[i])]

IsDigit(c) == c >= 48 /\ c <= 57

RECURSIVE TextLess(_, _)
\* memcmp order of two texts (SQLite BINARY collation)
TextLess(s, t) ==
    IF t = <<>> THEN FALSE
    ELSE IF s = <<>> THEN TRUE
    ELSE IF Head(s) # Head(t) THEN Head(s) < Head(t)
    ELSE TextLess(Tail(s), Tail(t))

TextLeq(s, t) == s = t \/ TextLess(s, t)

RECURSIVE Like(_, _)
\* SQLite's LIKE: % is any run of characters, _ is any one character,
\* every other character matches itself up to ASCII case
Like(p, s) ==
    IF p = <<>> THEN s = <<>>
    ELSE IF Head(p) = 37
         THEN Like(Tail(p), s) \/ (s # <<>> /\ Like(p, Tail(s)))
    ELSE /\ s # <<>>
         /\ (Head(p) = 95 \/ LowerChar(Head(p)) = LowerChar(Head(s)))
         /\ Like(Tail(p), Tail(s))

\* f"%{x}%"
Wrap(x) == <<37>> \o x \o <<37>>

----------------------------------------------------------------------------
(* Schema *)

NumCols == <<"cost_micros", "clicks", "conversions", "impressions", "interactions">>

TableCols == {"account_id", "campaign_id", "cost_micros", "clicks",
              "conversions", "impressions", "interactions", "date"}

ALLOWED_SORT == {"account_id", "campaign_id", "cost_micros",
                 "clicks", "conversions", "impressions", "interactions", "date"}

SeqToSet(s) == {s[i] : i \in 1..Len(s)}

----------------------------------------------------------------------------
(* Sub-batch sizing of import_csv_chunks *)

SQLITE_MAX_VARS == 999

\* the column counts looked at: 1..MaxCols, past the parameter ceiling
MaxCols == 1001

\* faulty variant: the margin added instead of subtracted
RowsPerInsertPlusOne(n) == Max(1, (SQLITE_MAX_VARS \div n) + 1)

RowsPerInsert(n) == Max(1, (SQLITE_MAX_VARS \div n) - 1)

\* bound parameters of one multi-row INSERT of r rows of n columns
StatementParams(r, n) == r * n

----------------------------------------------------------------------------
(* CSV files.  A csv is [cols |-> the set of its header's column names,    *)
(* rows |-> the sequence of its data lines]; a data line is a record of    *)
(* cell texts, one per column of the table (the cell of a column the       *)
(* header lacks is not read), and malformed = TRUE when the line holds     *)
(* more fields than the header, which the reader rejects.                  *)

CsvRow(a, c, cost, cl, cv, im, it, d) ==
    [account_id |-> a, campaign_id |-> c, cost_micros |-> cost, clicks |-> cl,
     conversions |-> cv, impressions |-> im, interactions |-> it, date |-> d,
     malformed |-> FALSE]

\* rows of the chunks pd.read_csv(..., chunksize=read_chunksize) yields; the
\* source's default is 200000, scaled down here so that a file of three lines
\* is read in two chunks
ReadChunkSize == 2

\* cell texts that pandas reads as missing (a subset of its default list)
NaTexts == {<<>>, <<78, 65>>, <<110, 117, 108, 108>>}

RECURSIVE DigitsVal(_, _)
DigitsVal(t, acc) ==
    IF t = <<>> THEN acc ELSE DigitsVal(Tail(t), 10 * acc + (Head(t) - 48))

AllDigits(t) == t # <<>> /\ \A i \in 1..Len(t) : IsDigit(t[i])

\* pd.to_numeric(errors="coerce") on one cell: a decimal integer, with an
\* optional sign, is its value; a missing or non-numeric cell is NaN (NULL)
ToNumeric(cell) ==
    IF cell \in NaTexts THEN None
    ELSE IF AllDigits(cell) THEN Some(DigitsVal(cell, 0))
    ELSE IF Head(cell) = 45 /\ AllDigits(Tail(cell)) THEN Some(0 - DigitsVal(Tail(cell), 0))
    ELSE None

\* read_csv with dtype=str on one cell: the text, or NaN (NULL) when missing
ToText(cell) == IF cell \in NaTexts THEN None ELSE Some(cell)

DaysInMonth(y, m) ==
    IF m \in {4, 6, 9, 11} THEN 30
    ELSE IF m # 2 THEN 31
    ELSE IF (y % 4 = 0 /\ y % 100 # 0) \/ y % 400 = 0 THEN 29 ELSE 28

IsIsoDate(t) ==
    /\ Len(t) = 10
    /\ t[5] = 45 /\ t[8] = 45
    /\ \A i \in {1, 2, 3, 4, 6, 7, 9, 10} : IsDigit(t[i])
    /\ LET y == DigitsVal(SubSeq(t, 1, 4), 0)
           m == DigitsVal(SubSeq(t, 6, 7), 0)
           d == DigitsVal(SubSeq(t, 9, 10), 0)
       IN  y >= 1 /\ m >= 1 /\ m <= 12 /\ d >= 1 /\ d <= DaysInMonth(y, m)

\* pd.to_datetime(errors="coerce").dt.strftime("%Y-%m-%d") on one cell of the
\* model's domain (ISO dates, missing cells, words that are no date)
ToIsoDate(cell) ==
    IF cell \in NaTexts THEN None
    ELSE IF IsIsoDate(cell) THEN Some(cell)
    ELSE None

\* the row to_sql inserts for one data line: a column the chunk lacks is NULL
NormalizeRow(cols, r) ==
    [account_id   |-> IF "account_id" \in cols THEN ToText(r.account_id) ELSE None,
     campaign_id  |-> IF "campaign_id" \in cols THEN ToText(r.campaign_id) ELSE None,
     cost_micros  |-> IF "cost_micros" \in cols THEN ToNumeric(r.cost_micros) ELSE None,
     clicks       |-> IF "clicks" \in cols THEN ToNumeric(r.clicks) ELSE None,
     conversions  |-> IF "conversions" \in cols THEN ToNumeric(r.conversions) ELSE None,
     impressions  |-> IF "impressions" \in cols THEN ToNumeric(r.impressions) ELSE None,
     interactions |-> IF "interactions" \in cols THEN ToNumeric(r.interactions) ELSE None,
     date         |-> ToIsoDate(r.date)]

\* number of chunks the reader yields: a header-only file yields one empty chunk
NChunks(csv) ==
    IF Len(csv.rows) = 0 THEN 1
    ELSE (Len(csv.rows) + ReadChunkSize - 1) \div ReadChunkSize

Chunk(csv, k) ==
    SubSeq(csv.rows, (k - 1) * ReadChunkSize + 1, Min(k * ReadChunkSize, Len(csv.rows)))

\* what processing chunk k raises, "ok" when nothing: the reader rejects a
\* malformed line, chunk["date"] needs the date column, and to_sql needs every
\* column of the chunk to be a column of the table
ChunkStatus(csv, k) ==
    IF \E i \in 1..Len(Chunk(csv, k)) : Chunk(csv, k)[i].malformed THEN "ParserError"
    ELSE IF "date" \notin csv.cols THEN "KeyError"
    ELSE IF ~(csv.cols \subseteq TableCols) THEN "OperationalError"
    ELSE "ok"

NormalizeChunk(csv, k) ==
    [i \in 1..Len(Chunk(csv, k)) |-> NormalizeRow(csv.cols, Chunk(csv, k)[i])]

\* faulty variant: an import that keeps the rows it finds
DeleteAllNoop(t) == t

\* DELETE FROM metrics; commit

DeleteAll(t) == <<>>

RECURSIVE ImportLoop(_, _, _, _)
\* the for loop of import_csv_chunks from chunk k on, run without interruption
ImportLoop(t, csv, k, total) ==
    IF k > NChunks(csv) THEN [db |-> t, status |-> "ok", total |-> total]
    ELSE IF ChunkStatus(csv, k) # "ok"
         THEN [db |-> t, status |-> ChunkStatus(csv, k), total |-> total]
    ELSE ImportLoop(t \o NormalizeChunk(csv, k), csv, k + 1, total + Len(Chunk(csv, k)))

\* faulty variant: the table is cleared before the path is tested
ImportCsvChunksDeleteFirst(t, src) ==
    IF IsNone(src) THEN [db |-> DeleteAll(t), status |-> "FileNotFoundError", total |-> 0]
    ELSE ImportLoop(DeleteAll(t), Val(src), 1, 0)

\* import_csv_chunks(conn, path) run without interruption; src is the file at
\* path, None when there is none
ImportCsvChunks(t, src) ==
    IF IsNone(src) THEN [db |-> t, status |-> "FileNotFoundError", total |-> 0]
    ELSE ImportLoop(DeleteAll(t), Val(src), 1, 0)

\* the table a successful import of csv leaves
Imported(csv) == ImportLoop(<<>>, csv, 1, 0).db

\* ensure_db_ready() run without interruption
EnsureDbReady(t, csvFile) ==
    IF Len(t) = 0 /\ ~IsNone(csvFile) THEN ImportCsvChunks(t, csvFile).db ELSE t

----------------------------------------------------------------------------
(* Filters: _build_where *)

\* the WHERE clause as the sequence of its conjuncts <<operator, column, parameter>>
BuildWhere(date_from, date_to, account_id, campaign_id) ==
    (IF Truthy(date_from) THEN << <<"ge", "date", Val(date_from)>> >> ELSE <<>>)
    \o (IF Truthy(date_to) THEN << <<"le", "date", Val(date_to)>> >> ELSE <<>>)
    \o (IF Truthy(account_id) THEN << <<"like", "account_id", Wrap(Val(account_id))>> >> ELSE <<>>)
    \o (IF Truthy(campaign_id) THEN << <<"like", "campaign_id", Wrap(Val(campaign_id))>> >> ELSE <<>>)

\* one conjunct on one row; a comparison with NULL is NULL, which WHERE rejects
EvalCond(c, row) ==
    /\ ~IsNone(row[c[2]])
    /\ CASE c[1] = "ge" -> TextLeq(c[3], Val(row[c[2]]))
         [] c[1] = "le" -> TextLeq(Val(row[c[2]]), c[3])
         [] OTHER -> Like(c[3], Val(row[c[2]]))

Where(conds, row) == \A i \in 1..Len(conds) : EvalCond(conds[i], row)

\* the rows of t the WHERE clause keeps, in rowid order
Filtered(t, conds) == SelectSeq(t, LAMBDA row : Where(conds, row))

----------------------------------------------------------------------------
(* ORDER BY *)

TextCols == {"account_id", "campaign_id", "date"}

\* SQLite's order on the values of one column: NULL first, then by value
KeyLeq(col, a, b) ==
    IF IsNone(a) THEN TRUE
    ELSE IF IsNone(b) THEN FALSE
    ELSE IF col \in TextCols THEN TextLeq(Val(a), Val(b))
    ELSE Val(a) <= Val(b)

IsOrdered(rows, col, dir) ==
    \A i \in 1..(Len(rows) - 1) :
        IF dir = "DESC" THEN KeyLeq(col, rows[i + 1][col], rows[i][col])
        ELSE KeyLeq(col, rows[i][col], rows[i + 1][col])

Perms(n) == {f \in [1..n -> 1..n] : \A i, j \in 1..n : f[i] = f[j] => i = j}

\* every result ORDER BY col dir may give for rows: SQL leaves the order of
\* rows with equal keys open
Orderings(rows, col, dir) ==
    {o \in {[i \in 1..Len(rows) |-> rows[f[i]]] : f \in Perms(Len(rows))} :
        IsOrdered(o, col, dir)}

\* sort_by if sort_by in ALLOWED_SORT else "date"
SortCol(sort_by) ==
    IF ~IsNone(sort_by) /\ Val(sort_by) \in ALLOWED_SORT THEN Val(sort_by) ELSE "date"

\* faulty variant: the direction compared without lower()
SortDirCaseSensitive(sort_dir) ==
    IF (IF Truthy(sort_dir) THEN Val(sort_dir) ELSE <<>>) = <<100, 101, 115, 99>>
    THEN "DESC" ELSE "ASC"

\* "DESC" if str(sort_dir or "").lower() == "desc" else "ASC"
SortDir(sort_dir) ==
    IF LowerText(IF Truthy(sort_dir) THEN Val(sort_dir) ELSE <<>>) = <<100, 101, 115, 99>>
    THEN "DESC" ELSE "ASC"

----------------------------------------------------------------------------
(* query_metrics_sql *)

MaxPageSize == 200

\* faulty variant: cost_micros selected for every caller
ColsAlwaysCost(include_cost) ==
    <<"account_id", "campaign_id", "cost_micros", "clicks", "conversions",
      "impressions", "interactions", "date">>

\* the projection: cost_micros is selected for an admin only
Cols(include_cost) ==
    IF include_cost
    THEN <<"account_id", "campaign_id", "cost_micros", "clicks", "conversions",
           "impressions", "interactions", "date">>
    ELSE <<"account_id", "campaign_id", "clicks", "conversions",
           "impressions", "interactions", "date">>

\* dict(zip(headers, r))
Project(row, cols) == [c \in SeqToSet(cols) |-> row[c]]

ClampPage(page) == Max(1, page)

ClampPageSize(page_size) == Max(1, Min(MaxPageSize, page_size))

\* faulty variant: pages counted from zero
OffsetFromZero(page, page_size) == ClampPage(page) * ClampPageSize(page_size)

Offset(page, page_size) == (ClampPage(page) - 1) * ClampPageSize(page_size)

\* LIMIT n OFFSET k on an ordered result
LimitOffset(rows, n, k) == SubSeq(rows, k + 1, Min(k + n, Len(rows)))

RECURSIVE SumNonNull(_, _)
SumNonNull(rows, col) ==
    IF rows = <<>> THEN 0
    ELSE (IF IsNone(Head(rows)[col]) THEN 0 ELSE Val(Head(rows)[col]))
         + SumNonNull(Tail(rows), col)

\* SQL SUM(col): NULL when no row holds a non-NULL value
SqlSum(rows, col) ==
    IF \A i \in 1..Len(rows) : IsNone(rows[i][col]) THEN None
    ELSE Some(SumNonNull(rows, col))

Coalesce(o, d) == IF IsNone(o) THEN d ELSE Val(o)

TotalKeys(include_cost) ==
    IF include_cost
    THEN {"clicks", "conversions", "impressions", "interactions", "cost_micros"}
    ELSE {"clicks", "conversions", "impressions", "interactions"}

\* the totals dict: float(COALESCE(SUM(k), 0) or 0.0) per key
Totals(rows, include_cost) ==
    [k \in TotalKeys(include_cost) |-> Coalesce(SqlSum(rows, k), 0)]

\* the orders the page query of request r may see the filtered rows in
QueryOrderings(t, r) ==
    Orderings(Filtered(t, BuildWhere(r.date_from, r.date_to, r.account_id, r.campaign_id)),
              SortCol(r.sort_by), SortDir(r.sort_dir))

QueryPageRows(t, r, ordered) ==
    [i \in 1..Len(LimitOffset(ordered, ClampPageSize(r.page_size), Offset(r.page, r.page_size)))
        |-> Project(LimitOffset(ordered, ClampPageSize(r.page_size),
                                Offset(r.page, r.page_size))[i], Cols(r.include_cost))]

\* faulty variant: the totals query without the WHERE clause
QueryTotalsOverTable(t, r) == Totals(t, r.include_cost)

\* the totals query of request r on table t

QueryTotals(t, r) ==
    Totals(Filtered(t, BuildWhere(r.date_from, r.date_to, r.account_id, r.campaign_id)),
           r.include_cost)

\* the statements of query_metrics_sql after ensure_db_ready, on table t, the
\* page query seeing the filtered rows as `ordered`
QueryMetricsSql(t, r, ordered) ==
    [rows   |-> QueryPageRows(t, r, ordered),
     total  |-> Len(Filtered(t, BuildWhere(r.date_from, r.date_to, r.account_id, r.campaign_id))),
     totals |-> QueryTotals(t, r)]

----------------------------------------------------------------------------
(* stream_export_csv *)

\* the header cell of a column: its name
ColText(c) ==
    CASE c = "account_id"   -> <<97, 99, 99, 111, 117, 110, 116, 95, 105, 100>>
      [] c = "campaign_id"  -> <<99, 97, 109, 112, 97, 105, 103, 110, 95, 105, 100>>
      [] c = "cost_micros"  -> <<99, 111, 115, 116, 95, 109, 105, 99, 114, 111, 115>>
      [] c = "clicks"       -> <<99, 108, 105, 99, 107, 115>>
      [] c = "conversions"  -> <<99, 111, 110, 118, 101, 114, 115, 105, 111, 110, 115>>
      [] c = "impressions"  -> <<105, 109, 112, 114, 101, 115, 115, 105, 111, 110, 115>>
      [] c = "interactions" -> <<105, 110, 116, 101, 114, 97, 99, 116, 105, 111, 110, 115>>
      [] OTHER              -> <<100, 97, 116, 101>>

RECURSIVE NatText(_)
NatText(n) == IF n < 10 THEN <<48 + n>> ELSE NatText(n \div 10) \o <<48 + (n % 10)>>

\* str() of an integer-valued float: "12.0", "-3.0"
FloatText(n) ==
    (IF n < 0 THEN <<45>> \o NatText(0 - n) ELSE NatText(n)) \o <<46, 48>>

\* csv.writer on one value: None is the empty cell
CsvCell(col, v) ==
    IF IsNone(v) THEN <<>>
    ELSE IF col \in TextCols THEN Val(v)
    ELSE FloatText(Val(v))

\* one yielded line, as the sequence of its cells
HeaderLine(cols) == [i \in 1..Len(cols) |-> ColText(cols[i])]

DataLine(row, cols) == [i \in 1..Len(cols) |-> CsvCell(cols[i], row[cols[i]])]

\* the orders the export query of request r may see the filtered rows in
ExportOrderings(t, r) ==
    Orderings(Filtered(t, BuildWhere(r.date_from, r.date_to, r.account_id, r.campaign_id)),
              SortCol(r.sort_by), SortDir(r.sort_dir))

\* faulty variant: the export query with the page query's LIMIT
StreamExportCsvPaged(t, r, ordered) ==
    <<HeaderLine(Cols(r.include_cost))>>
    \o [i \in 1..Len(LimitOffset(ordered, ClampPageSize(r.page_size), 0))
           |-> DataLine(ordered[i], Cols(r.include_cost))]

\* the lines stream_export_csv yields after ensure_db_ready, on table t, the
\* query seeing the filtered rows as `ordered`
StreamExportCsv(t, r, ordered) ==
    <<HeaderLine(Cols(r.include_cost))>>
    \o [i \in 1..Len(ordered) |-> DataLine(ordered[i], Cols(r.include_cost))]

----------------------------------------------------------------------------
(* Sample data *)

\* the most lines a file of SampleCsvs holds
MaxRows == 3

\* the pages a walk asks for: one more than a table of MaxRows rows can fill
MaxPages == MaxRows + 1

D1 == <<50, 48, 50, 52, 45, 48, 49, 45, 48, 49>>

D2 == <<50, 48, 50, 52, 45, 48, 49, 45, 48, 50>>

D3 == <<50, 48, 50, 52, 45, 48, 49, 45, 48, 51>>

\* a1,c1,5,2,1,3,1,2024-01-01 / A2,c2,,x,0,,2,2024-01-02 /
\* b1,c1,1,1,1,1,1,bad / NA,c2,3,05,2,2,0,2024-01-02
SampleRows ==
    {CsvRow(<<97, 49>>, <<99, 49>>, <<53>>, <<50>>, <<49>>, <<51>>, <<49>>, D1),
     CsvRow(<<65, 50>>, <<99, 50>>, <<>>, <<120>>, <<48>>, <<>>, <<50>>, D2),
     CsvRow(<<98, 49>>, <<99, 49>>, <<49>>, <<49>>, <<49>>, <<49>>, <<49>>, <<98, 97, 100>>),
     CsvRow(<<78, 65>>, <<99, 50>>, <<51>>, <<48, 53>>, <<50>>, <<50>>, <<48>>, D2)}

SeqsUpTo(S, n) == UNION {[1..k -> S] : k \in 0..n}

\* the well-formed files: full header, up to MaxRows sample lines
SampleCsvs == {[cols |-> TableCols, rows |-> rows] : rows \in SeqsUpTo(SampleRows, MaxRows)}

Filter(df, dt, a, c) == [date_from |-> df, date_to |-> dt, account_id |-> a, campaign_id |-> c]

\* no filter / one day / "a" / date_from="" with date_to and campaign /
\* "_1" / a day after every row
SampleFilters ==
    {Filter(None, None, None, None),
     Filter(Some(D2), Some(D2), None, None),
     Filter(None, None, Some(<<97>>), None),
     Filter(Some(<<>>), Some(D1), None, Some(<<99, 49>>)),
     Filter(None, None, Some(<<95, 49>>), None),
     Filter(Some(D3), None, None, None)}

Request(f, sb, sd, p, ps, ic) ==
    [date_from |-> f.date_from, date_to |-> f.date_to, account_id |-> f.account_id,
     campaign_id |-> f.campaign_id, sort_by |-> sb, sort_dir |-> sd,
     page |-> p, page_size |-> ps, include_cost |-> ic]

\* sort_by: absent, cost_micros, a name outside the allow-list
SampleSortBy == {None, Some("cost_micros"), Some("bogus")}

\* sort_dir: absent, "Desc", "up"
SampleSortDir == {None, Some(<<68, 101, 115, 99>>), Some(<<117, 112>>)}

SamplePages == {0, 2}

SamplePageSizes == {0, 2, MaxPageSize + 1}

Requests ==
    {Request(f, sb, sd, p, ps, ic) :
        f \in SampleFilters, sb \in SampleSortBy, sd \in SampleSortDir,
        p \in SamplePages, ps \in SamplePageSizes, ic \in BOOLEAN}

----------------------------------------------------------------------------
(* Concurrent request threads.  Every operation opens its own connection;  *)
(* a step is one committed transaction or one autocommit SELECT, which     *)
(* SQLite serialises: DELETE + commit, one to_sql call (a transaction of   *)
(* its own, rolled back when it raises), one SELECT.                       *)

Procs == {"t1", "t2"}

NoCsv == [cols |-> {}, rows |-> <<>>]

IdleLoc ==
    [op |-> "none", src |-> None, k |-> 0, total |-> 0, overlap |-> FALSE,
     status |-> "none", seen |-> <<>>]

NoHist == [status |-> "none", csv |-> NoCsv, overlap |-> FALSE, okCsv |-> None]

\* a1,c1,5,2,1,3,1,2024-01-01 / A2,c2,,x,0,,2,2024-01-02 / b1,c1,1,1,1,1,1,bad
CsvA ==
    [cols |-> TableCols,
     rows |-> <<CsvRow(<<97, 49>>, <<99, 49>>, <<53>>, <<50>>, <<49>>, <<51>>, <<49>>, D1),
                CsvRow(<<65, 50>>, <<99, 50>>, <<>>, <<120>>, <<48>>, <<>>, <<50>>, D2),
                CsvRow(<<98, 49>>, <<99, 49>>, <<49>>, <<49>>, <<49>>, <<49>>, <<49>>,
                       <<98, 97, 100>>)>>]

\* one line, no cost_micros column
CsvB ==
    [cols |-> TableCols \ {"cost_micros"},
     rows |-> <<CsvRow(<<78, 65>>, <<99, 50>>, <<51>>, <<48, 53>>, <<50>>, <<50>>, <<48>>, D2)>>]

\* the lines of CsvA, the third with a field too many
CsvMalformed ==
    [cols |-> TableCols,
     rows |-> [i \in 1..3 |-> [CsvA.rows[i] EXCEPT !.malformed = (i = 3)]]]

\* no date column
CsvNoDate == [cols |-> TableCols \ {"date"}, rows |-> CsvB.rows]

\* a column the table lacks
CsvExtraCol == [cols |-> TableCols \cup {"region"}, rows |-> CsvB.rows]

CsvHeaderOnly == [cols |-> TableCols, rows |-> <<>>]

\* the files an import is asked to load; None: the path does not exist
ImportSources ==
    {None, Some(CsvA), Some(CsvB), Some(CsvMalformed), Some(CsvNoDate),
     Some(CsvExtraCol), Some(CsvHeaderOnly)}

\* a read operation begins: query_metrics_sql, stream_export_csv,
\* get_date_bounds or get_distinct_values, each calling ensure_db_ready first
ReadStart(p) ==
    /\ pc[p] = "idle"
    /\ pc' = [pc EXCEPT ![p] = "count"]
    /\ loc' = [loc EXCEPT ![p] = [IdleLoc EXCEPT !.op = "read"]]
    /\ UNCHANGED <<db, metricsCsv, hist, req, resp, pager, nCols, rowsPerInsert, cmp, progress, upload, twin>>

\* ensure_db_ready: SELECT COUNT(*), then the test of the count and of the file
EnsureCount(p) ==
    /\ pc[p] = "count"
    /\ pc' = [pc EXCEPT ![p] = IF Len(db) = 0 /\ ~IsNone(metricsCsv)
                                THEN "check" ELSE "select"]
    /\ UNCHANGED <<db, metricsCsv, loc, hist, req, resp, pager, nCols, rowsPerInsert, cmp, progress, upload, twin>>

\* import_csv_file(path) begins, src the file at path
ImportStart(p, src) ==
    /\ pc[p] = "idle"
    /\ pc' = [pc EXCEPT ![p] = "check"]
    /\ loc' = [loc EXCEPT ![p] = [IdleLoc EXCEPT !.op = "import", !.src = src]]
    /\ UNCHANGED <<db, metricsCsv, hist, req, resp, pager, nCols, rowsPerInsert, cmp, progress, upload, twin>>

\* the file import_csv_chunks of thread p reads
SourceOf(p) == IF loc[p].op = "read" THEN metricsCsv ELSE loc[p].src

\* import_csv_chunks: os.path.exists(csv_path)
ImportCheck(p) ==
    /\ pc[p] = "check"
    /\ IF IsNone(SourceOf(p))
       THEN /\ pc' = [pc EXCEPT ![p] = "idle"]
            /\ loc' = [loc EXCEPT ![p].status = "FileNotFoundError"]
       ELSE /\ pc' = [pc EXCEPT ![p] = "delete"]
            /\ loc' = loc
    /\ UNCHANGED <<db, metricsCsv, hist, req, resp, pager, nCols, rowsPerInsert, cmp, progress, upload, twin>>

\* threads between their DELETE and the end of their import_csv_chunks
Importing == {q \in Procs : pc[q] = "chunk"}

\* import_csv_chunks: DELETE FROM metrics; commit
ImportDelete(p) ==
    /\ pc[p] = "delete"
    /\ db' = DeleteAll(db)
    /\ pc' = [pc EXCEPT ![p] = "chunk"]
    /\ loc' = [q \in Procs |->
                 IF q = p THEN [loc[p] EXCEPT !.k = 1, !.total = 0,
                                              !.overlap = (Importing # {})]
                 ELSE IF q \in Importing THEN [loc[q] EXCEPT !.overlap = TRUE]
                 ELSE loc[q]]
    /\ UNCHANGED <<metricsCsv, hist, req, resp, pager, nCols, rowsPerInsert, cmp, progress, upload, twin>>

\* the csv thread p reads its chunks from: the file as it is when read_csv
\* opens it, which is when the first chunk is asked for
OpenCsv(p) == IF loc[p].k = 1 THEN Val(SourceOf(p)) ELSE Val(loc[p].src)

\* import_csv_chunks: one turn of the for loop
ImportChunk(p) ==
    /\ pc[p] = "chunk"
    /\ loc[p].k <= NChunks(OpenCsv(p))
    /\ IF ChunkStatus(OpenCsv(p), loc[p].k) # "ok"
       THEN /\ db' = db
            /\ pc' = [pc EXCEPT ![p] = "idle"]
            /\ loc' = [loc EXCEPT ![p].status = ChunkStatus(OpenCsv(p), loc[p].k),
                                  ![p].src = Some(OpenCsv(p))]
            /\ hist' = [status |-> ChunkStatus(OpenCsv(p), loc[p].k),
                        csv |-> OpenCsv(p), overlap |-> loc[p].overlap,
                        okCsv |-> hist.okCsv]
       ELSE /\ db' = db \o NormalizeChunk(OpenCsv(p), loc[p].k)
            /\ pc' = pc
            /\ loc' = [loc EXCEPT ![p].k = @ + 1,
                                  ![p].total = @ + Len(Chunk(OpenCsv(p), loc[p].k)),
                                  ![p].src = Some(OpenCsv(p))]
            /\ hist' = hist
    /\ UNCHANGED <<metricsCsv, req, resp, pager, nCols, rowsPerInsert, cmp, progress, upload, twin>>

\* import_csv_chunks: the loop is over; ANALYZE; commit; return total
ImportFinish(p) ==
    /\ pc[p] = "chunk"
    /\ loc[p].k > NChunks(OpenCsv(p))
    /\ pc' = [pc EXCEPT ![p] = IF loc[p].op = "read" THEN "select" ELSE "idle"]
    /\ loc' = [loc EXCEPT ![p].status = IF loc[p].op = "read" THEN @ ELSE "ok"]
    /\ hist' = [status |-> "ok", csv |-> OpenCsv(p), overlap |-> loc[p].overlap,
                okCsv |-> Some(OpenCsv(p))]
    /\ UNCHANGED <<db, metricsCsv, req, resp, pager, nCols, rowsPerInsert, cmp, progress, upload, twin>>

\* the SELECT of the read operation: what the caller is shown
ReadSelect(p) ==
    /\ pc[p] = "select"
    /\ pc' = [pc EXCEPT ![p] = "idle"]
    /\ loc' = [loc EXCEPT ![p].seen = db, ![p].status = "ok"]
    /\ UNCHANGED <<db, metricsCsv, hist, req, resp, pager, nCols, rowsPerInsert, cmp, progress, upload, twin>>

SeqIdle == req = [op |-> "none"] /\ resp = [op |-> "none"] /\ pager = [on |-> FALSE]

BatchIdle == nCols = 0 /\ rowsPerInsert = 0

CmpIdle == cmp = [op |-> "none"]

UploadIdle == progress = "unknown" /\ upload = [pc |-> "none"]

TwinIdle == twin = <<>>

ThreadsIdle == pc = [p \in Procs |-> "idle"] /\ loc = [p \in Procs |-> IdleLoc] /\ hist = NoHist

Init ==
    /\ db = <<>>
    /\ metricsCsv \in {None, Some(CsvA)}
    /\ ThreadsIdle
    /\ SeqIdle /\ BatchIdle /\ CmpIdle /\ UploadIdle /\ TwinIdle

Next ==
    \E p \in Procs :
        \/ ReadStart(p)
        \/ EnsureCount(p)
        \/ \E src \in ImportSources : ImportStart(p, src)
        \/ ImportCheck(p)
        \/ ImportDelete(p)
        \/ ImportChunk(p)
        \/ ImportFinish(p)
        \/ ReadSelect(p)

Spec == Init /\ [][Next]_vars

\* read requests only, on empty storage with the default source file present
InitBoot ==
    /\ db = <<>>
    /\ metricsCsv \in {Some(CsvA), Some(CsvB), Some(CsvHeaderOnly)}
    /\ ThreadsIdle
    /\ SeqIdle /\ BatchIdle /\ CmpIdle /\ UploadIdle /\ TwinIdle

NextBoot ==
    \E p \in Procs :
        \/ ReadStart(p)
        \/ EnsureCount(p)
        \/ ImportCheck(p)
        \/ ImportDelete(p)
        \/ ImportChunk(p)
        \/ ImportFinish(p)
        \/ ReadSelect(p)

SpecBoot == InitBoot /\ [][NextBoot]_vars

----------------------------------------------------------------------------
(* Claims on the concurrent threads *)

\* C1 as stated: once an import has succeeded, the table is in every reachable
\* state exactly the content of the most recently successfully imported CSV.
C1_AlwaysLastImport ==
    ~IsNone(hist.okCsv) => db = Imported(Val(hist.okCsv))

\* C1 amended: when no import_csv_chunks call is between its DELETE and its
\* end, and the last such call to end succeeded without overlapping another,
\* the table holds exactly the rows of the CSV that call read.
C1_QuiescentLastImport ==
    (Importing = {} /\ hist.status = "ok" /\ ~hist.overlap) => db = Imported(hist.csv)

\* an import of CsvB has replaced the rows of CsvA that a reader was shown before
C1_Witness ==
    /\ Importing = {} /\ hist.status = "ok" /\ ~hist.overlap
    /\ hist.csv = CsvB /\ Len(db) = 1
    /\ \E p \in Procs : loc[p].seen = Imported(CsvA)

\* C8 as stated: after any number of reads, sequential or interleaved, on
\* storage that started empty, the table holds each row of the default source
\* exactly once.
C8_BootstrapOnce ==
    ((\A p \in Procs : pc[p] = "idle") /\ (\E p \in Procs : loc[p].status = "ok"))
        => db = Imported(Val(metricsCsv))

----------------------------------------------------------------------------
(* The sub-batch size, for every column count up to MaxCols *)

InitBatch ==
    /\ nCols \in 1..MaxCols
    /\ rowsPerInsert = 0
    /\ db = <<>> /\ metricsCsv = None
    /\ ThreadsIdle /\ SeqIdle /\ CmpIdle /\ UploadIdle /\ TwinIdle

\* lines 101-103 of import_csv_chunks on a chunk of nCols columns
SizeBatch ==
    /\ rowsPerInsert = 0
    /\ rowsPerInsert' = RowsPerInsert(nCols)
    /\ UNCHANGED <<db, metricsCsv, pc, loc, hist, req, resp, pager, nCols, cmp, progress, upload, twin>>

SpecBatch == InitBatch /\ [][SizeBatch]_vars

\* C7 as stated: for every number of columns n >= 1 the sub-batch size keeps
\* rows_per_insert * n within the 999 parameters a statement may bind.
C7_NeverExceeds ==
    rowsPerInsert > 0 => StatementParams(rowsPerInsert, nCols) <= SQLITE_MAX_VARS

\* C7 amended: for every number of columns n with 1 <= n <= 999 the sub-batch
\* size keeps rows_per_insert * n within the 999 parameters a statement may bind.
C7_WithinLimitUpTo999 ==
    (rowsPerInsert > 0 /\ nCols <= SQLITE_MAX_VARS)
        => StatementParams(rowsPerInsert, nCols) <= SQLITE_MAX_VARS

\* the table's eight columns: 123 rows, 984 parameters a statement
C7_Witness ==
    nCols = 8 /\ rowsPerInsert = 123 /\ StatementParams(rowsPerInsert, nCols) = 984

----------------------------------------------------------------------------
(* One client, one request at a time: every read runs ensure_db_ready and  *)
(* its statements without another request in between.                      *)

InitQuery ==
    /\ db = <<>>
    /\ metricsCsv \in {None} \cup {Some(c) : c \in SampleCsvs}
    /\ req \in Requests
    /\ resp = [op |-> "none"] /\ pager = [on |-> FALSE]
    /\ ThreadsIdle /\ BatchIdle /\ CmpIdle /\ UploadIdle /\ TwinIdle

\* query_metrics_sql(req)
DoQuery ==
    /\ resp.op = "none" /\ ~pager.on
    /\ db' = EnsureDbReady(db, metricsCsv)
    /\ \E o \in QueryOrderings(db', req) :
          resp' = [op |-> "query", out |-> QueryMetricsSql(db', req, o)]
    /\ UNCHANGED <<metricsCsv, pc, loc, hist, req, pager, nCols, rowsPerInsert, cmp, progress, upload, twin>>

\* list(stream_export_csv(req)), which takes no page; cursor: the rows the
\* cursor produced
DoExport ==
    /\ resp.op = "none" /\ ~pager.on
    /\ req.page = 0 /\ req.page_size = 0
    /\ db' = EnsureDbReady(db, metricsCsv)
    /\ \E o \in ExportOrderings(db', req) :
          resp' = [op |-> "export", lines |-> StreamExportCsv(db', req, o), cursor |-> o]
    /\ UNCHANGED <<metricsCsv, pc, loc, hist, req, pager, nCols, rowsPerInsert, cmp, progress, upload, twin>>

\* the client starts to walk the pages of req: page = 1, 2, 3, ...
PagerStart ==
    /\ resp.op = "none" /\ ~pager.on
    /\ req.page = 0
    /\ pager' = [on |-> TRUE, counts |-> <<>>, total |-> 0]
    /\ UNCHANGED <<db, metricsCsv, pc, loc, hist, req, resp, nCols, rowsPerInsert, cmp, progress, upload, twin>>

\* query_metrics_sql for the next page of the walk
PagerStep ==
    /\ pager.on
    /\ Len(pager.counts) < MaxPages
    /\ db' = EnsureDbReady(db, metricsCsv)
    /\ \E o \in QueryOrderings(db', req) :
          LET out == QueryMetricsSql(db', [req EXCEPT !.page = Len(pager.counts) + 1], o)
          IN  pager' = [on |-> TRUE, counts |-> Append(pager.counts, Len(out.rows)),
                        total |-> out.total]
    /\ UNCHANGED <<metricsCsv, pc, loc, hist, req, resp, nCols, rowsPerInsert, cmp, progress, upload, twin>>

NextQuery == DoQuery \/ DoExport \/ PagerStart \/ PagerStep

SpecQuery == InitQuery /\ [][NextQuery]_vars

----------------------------------------------------------------------------
(* Claims on the read operations *)

\* C2: with include_cost false no returned row, no totals map and no export
\* header holds cost_micros.
C2_NoCostWithoutAdmin ==
    ~req.include_cost =>
        /\ resp.op = "query" =>
              /\ \A i \in 1..Len(resp.out.rows) : "cost_micros" \notin DOMAIN resp.out.rows[i]
              /\ "cost_micros" \notin DOMAIN resp.out.totals
        /\ resp.op = "export" =>
              \A j \in 1..Len(resp.lines[1]) :
                  resp.lines[1][j] # <<99, 111, 115, 116, 95, 109, 105, 99, 114, 111, 115>>

\* a non-admin page of two rows, sorted by cost_micros, came back
C2_Witness ==
    /\ ~req.include_cost /\ req.sort_by = Some("cost_micros")
    /\ resp.op = "query" /\ Len(resp.out.rows) = 2

\* page_size as the request is served with it: clamped to 1..200
Clamped(ps) == IF ps < 1 THEN 1 ELSE IF ps > 200 THEN 200 ELSE ps

RECURSIVE SumSeq(_)
SumSeq(q) == IF q = <<>> THEN 0 ELSE Head(q) + SumSeq(Tail(q))

\* C3: the numbers of rows of pages 1, 2, 3, ... of one filter sum to the total
\* row count of that filter, and every page past the last one is empty.
C3_PagesSumToTotal ==
    (pager.on /\ Len(pager.counts) = MaxPages) =>
        /\ SumSeq(pager.counts) = pager.total
        /\ \A p \in 1..MaxPages :
              (p - 1) * Clamped(req.page_size) >= pager.total => pager.counts[p] = 0

\* a walk over three one-row pages and an empty fourth
C3_Witness ==
    /\ pager.on /\ Len(pager.counts) = MaxPages /\ pager.total = 3
    /\ Clamped(req.page_size) = 1
    /\ pager.counts[1] = 1 /\ pager.counts[3] = 1 /\ pager.counts[4] = 0

\* the filter of req on one row, as section 4.3 of the specification words it:
\* inclusive date bounds, substring patterns on the two ids
MatchesFilter(row) ==
    /\ Truthy(req.date_from) =>
          ~IsNone(row.date) /\ ~TextLess(Val(row.date), Val(req.date_from))
    /\ Truthy(req.date_to) =>
          ~IsNone(row.date) /\ ~TextLess(Val(req.date_to), Val(row.date))
    /\ Truthy(req.account_id) =>
          ~IsNone(row.account_id) /\ Like(Wrap(Val(req.account_id)), Val(row.account_id))
    /\ Truthy(req.campaign_id) =>
          ~IsNone(row.campaign_id) /\ Like(Wrap(Val(req.campaign_id)), Val(row.campaign_id))

Matching == {i \in 1..Len(db) : MatchesFilter(db[i])}

RECURSIVE SumOver(_, _)
\* the sum of column k over the rows of db at the indexes I, NULL as 0
SumOver(I, k) ==
    IF I = {} THEN 0
    ELSE LET i == CHOOSE j \in I : TRUE
         IN  (IF db[i][k] = None THEN 0 ELSE db[i][k][1]) + SumOver(I \ {i}, k)

\* C4: totals are, per field, the sum over all rows matching the filter with
\* null as 0 (cost_micros only with include_cost), total is their number, and
\* neither depends on page or page_size; with no matching row they are 0.
C4_TotalsOverFilter ==
    resp.op = "query" =>
        /\ DOMAIN resp.out.totals =
              {"clicks", "conversions", "impressions", "interactions"}
              \cup (IF req.include_cost THEN {"cost_micros"} ELSE {})
        /\ \A k \in DOMAIN resp.out.totals : resp.out.totals[k] = SumOver(Matching, k)
        /\ resp.out.total = Cardinality(Matching)

\* page 2 of a filter that keeps two of three rows, a null among the summed cells
C4_Witness ==
    /\ resp.op = "query" /\ req.page = 2 /\ Len(db) = 3
    /\ resp.out.total = 2
    /\ \E i \in Matching : db[i].clicks = None
    /\ resp.out.totals["clicks"] > 0

\* the lines of the export are the header of the projection, then one line
\* per row the cursor produced
C5_LinesOfCursor ==
    /\ Len(resp.lines) = 1 + Len(resp.cursor)
    /\ resp.lines[1] = HeaderLine(Cols(req.include_cost))
    /\ \A i \in 1..Len(resp.cursor) :
          resp.lines[i + 1] = DataLine(resp.cursor[i], Cols(req.include_cost))

\* the rows the cursor produced are the matching rows, each once
C5_CursorIsMatching ==
    \E f \in [1..Len(resp.cursor) -> Matching] :
        /\ \A i, j \in 1..Len(resp.cursor) : f[i] = f[j] => i = j
        /\ \A i \in 1..Len(resp.cursor) : resp.cursor[i] = db[f[i]]

\* whether sort_dir asks for descending order: "desc" in any letter case
AsksDesc(sd) ==
    /\ sd # None /\ Len(sd[1]) = 4
    /\ sd[1][1] \in {100, 68} /\ sd[1][2] \in {101, 69}
    /\ sd[1][3] \in {115, 83} /\ sd[1][4] \in {99, 67}

\* the column req is sorted on
AskedCol == IF req.sort_by # None /\ req.sort_by[1] \in ALLOWED_SORT THEN req.sort_by[1] ELSE "date"

\* a before b in the order asked for on column c (NULL lowest)
InAskedOrder(c, a, b) ==
    IF AsksDesc(req.sort_dir) THEN KeyLeq(c, b[c], a[c]) ELSE KeyLeq(c, a[c], b[c])

\* C5: the export yields one header line and then exactly one line per
\* matching row, in the requested sort order and with no limit: as many data
\* lines as the total the page query counts (all rows when there is no filter).
C5_ExportAllMatching ==
    resp.op = "export" =>
        /\ C5_LinesOfCursor
        /\ C5_CursorIsMatching
        /\ Len(resp.lines) - 1 = Cardinality(Matching)
        /\ \A o \in QueryOrderings(db, req) :
              Len(resp.lines) - 1 = QueryMetricsSql(db, req, o).total
        /\ \A i \in 1..(Len(resp.cursor) - 1) :
              InAskedOrder(AskedCol, resp.cursor[i], resp.cursor[i + 1])
        /\ (~Truthy(req.date_from) /\ ~Truthy(req.date_to) /\ ~Truthy(req.account_id)
            /\ ~Truthy(req.campaign_id)) => Len(resp.lines) - 1 = Len(db)

\* an export of three lines more than the page size would have allowed
C5_Witness ==
    /\ resp.op = "export" /\ Len(resp.lines) = 4 /\ Len(db) = 3
    /\ req.sort_by = Some("cost_micros")

\* C9: a sort_by outside the allow-list (absent included) gives rows ordered by
\* date, descending when sort_dir is "desc" in any letter case, ascending otherwise.
C9_FallbackToDate ==
    (req.sort_by = None \/ req.sort_by[1] \notin ALLOWED_SORT) =>
        /\ resp.op = "query" =>
              \A i \in 1..(Len(resp.out.rows) - 1) :
                  InAskedOrder("date", resp.out.rows[i], resp.out.rows[i + 1])
        /\ resp.op = "export" =>
              \A i \in 1..(Len(resp.cursor) - 1) :
                  InAskedOrder("date", resp.cursor[i], resp.cursor[i + 1])

\* sort_by=bogus, sort_dir=Desc: three rows came back, the dated ones first
\* and in falling order, the undated one last
C9_Witness ==
    /\ req.sort_by = Some("bogus") /\ req.sort_dir = Some(<<68, 101, 115, 99>>)
    /\ resp.op = "query" /\ Len(resp.out.rows) = 3
    /\ resp.out.rows[1].date = Some(D2) /\ resp.out.rows[2].date = Some(D1)
    /\ resp.out.rows[3].date = None

----------------------------------------------------------------------------
(* Imports one after the other, no request in between two steps of one     *)

\* two lines that are the same: no key forbids it
CsvDup == [cols |-> TableCols, rows |-> <<CsvA.rows[1], CsvA.rows[1]>>]

ImportFiles == ImportSources \cup {Some(CsvDup)}

InitImport ==
    /\ db = <<>>
    /\ metricsCsv \in {None, Some(CsvB)}
    /\ SeqIdle
    /\ ThreadsIdle /\ BatchIdle /\ CmpIdle /\ UploadIdle /\ TwinIdle

\* import_csv_file(path), src the file at path; again: the call before this
\* one was an import of the same file; prev: what that call returned and left
DoImport(src) ==
    /\ db' = ImportCsvChunks(db, src).db
    /\ resp' = [op |-> "import", src |-> src,
                status |-> ImportCsvChunks(db, src).status,
                total |-> ImportCsvChunks(db, src).total,
                again |-> (resp.op = "import" /\ resp.src = src),
                prev |-> IF resp.op = "import"
                         THEN [status |-> resp.status, total |-> resp.total, db |-> db]
                         ELSE [status |-> "none", total |-> 0, db |-> db]]
    /\ UNCHANGED <<metricsCsv, pc, loc, hist, req, pager, nCols, rowsPerInsert, cmp, progress, upload, twin>>

\* a read operation: ensure_db_ready and a SELECT
DoRead ==
    /\ db' = EnsureDbReady(db, metricsCsv)
    /\ resp' = [op |-> "read", seen |-> db']
    /\ UNCHANGED <<metricsCsv, pc, loc, hist, req, pager, nCols, rowsPerInsert, cmp, progress, upload, twin>>

NextImport == (\E src \in ImportFiles : DoImport(src)) \/ DoRead

SpecImport == InitImport /\ [][NextImport]_vars

\* C6: importing the same CSV twice in sequence returns the same row count and
\* leaves the same rows, hence the same totals; the second import holds the
\* file's lines once, not added to those of the first.
C6_ReimportIdempotent ==
    (resp.op = "import" /\ resp.again) =>
        /\ resp.status = resp.prev.status
        /\ resp.total = resp.prev.total
        /\ db = resp.prev.db
        /\ Totals(db, TRUE) = Totals(resp.prev.db, TRUE)
        /\ resp.status = "ok" =>
              /\ resp.total = Len(resp.src[1].rows)
              /\ Len(db) = Len(resp.src[1].rows)

\* the three-line file imported a second time
C6_Witness ==
    /\ resp.op = "import" /\ resp.again /\ resp.status = "ok"
    /\ resp.src = Some(CsvA) /\ resp.total = 3 /\ Len(db) = 3

----------------------------------------------------------------------------
(* Period comparison: compare() of app.py *)

\* compute_totals(date_from, date_to, account_id, campaign_id, include_cost):
\* COALESCE(SUM(field), 0) of every totals field over the filtered rows
ComputeTotals(t, date_from, date_to, account_id, campaign_id, include_cost) ==
    Totals(Filtered(t, BuildWhere(date_from, date_to, account_id, campaign_id)), include_cost)

\* float x / float y: [raised |-> TRUE] is ZeroDivisionError, else the quotient
\* as the fraction num / den
FloatDiv(x, y) ==
    IF y = 0 THEN [raised |-> TRUE, num |-> 0, den |-> 0]
    ELSE [raised |-> FALSE, num |-> x, den |-> y]

FloatTimes(q, n) == [q EXCEPT !.num = @ * n]

DiffAbs(da, dB) == dB - da

\* faulty variant: the test made on period B's sum
DiffPctGuardB(da, dB) ==
    IF dB = 0 THEN None ELSE Some(FloatTimes(FloatDiv(dB - da, da), 100))

\* None if da == 0 else ((db - da) / da) * 100.0
DiffPct(da, dB) ==
    IF da = 0 THEN None ELSE Some(FloatTimes(FloatDiv(dB - da, da), 100))

\* the body of the try block of compare() on the two totals
CompareTotals(total_a, total_b) ==
    [total_a  |-> total_a,
     total_b  |-> total_b,
     diff_abs |-> [k \in DOMAIN total_a |-> DiffAbs(total_a[k], total_b[k])],
     diff_pct |-> [k \in DOMAIN total_a |-> DiffPct(total_a[k], total_b[k])]]

\* an exception in the try block: the answer is the error, status 500
Raised(out) ==
    \E k \in DOMAIN out.diff_pct : out.diff_pct[k] # None /\ out.diff_pct[k][1].raised

SampleDates == {None, Some(D1), Some(D2)}

CompareRequests ==
    [a_from : SampleDates, a_to : SampleDates, b_from : SampleDates, b_to : SampleDates,
     account_id : {None, Some(<<97>>)}, campaign_id : {None}, include_cost : BOOLEAN]

InitCompare ==
    /\ db = <<>>
    /\ metricsCsv \in {None} \cup {Some(c) : c \in SampleCsvs}
    /\ cmp \in {[op |-> "none", req |-> r] : r \in CompareRequests}
    /\ SeqIdle /\ ThreadsIdle /\ BatchIdle /\ UploadIdle /\ TwinIdle

\* GET /api/compare
DoCompare ==
    /\ cmp.op = "none"
    /\ db' = EnsureDbReady(db, metricsCsv)
    /\ LET r == cmp.req
           out == CompareTotals(
                    ComputeTotals(db', r.a_from, r.a_to, r.account_id, r.campaign_id,
                                  r.include_cost),
                    ComputeTotals(db', r.b_from, r.b_to, r.account_id, r.campaign_id,
                                  r.include_cost))
       IN  cmp' = [op |-> "compare", req |-> r, out |-> out,
                   status |-> IF Raised(out) THEN 500 ELSE 200]
    /\ UNCHANGED <<metricsCsv, pc, loc, hist, req, resp, pager, nCols, rowsPerInsert, progress, upload, twin>>

SpecCompare == InitCompare /\ [][DoCompare]_vars

\* C10: for every key k of totals A, diff_abs[k] = B[k] - A[k]; diff_pct[k] is
\* null when A[k] is 0, also when B[k] is not, and (B[k] - A[k]) / A[k] * 100
\* otherwise; no division by zero occurs.
C10_DiffPctNullOnZero ==
    cmp.op = "compare" =>
        /\ cmp.status = 200
        /\ \A k \in DOMAIN cmp.out.total_a :
              /\ cmp.out.diff_abs[k] = cmp.out.total_b[k] - cmp.out.total_a[k]
              /\ cmp.out.total_a[k] = 0 => cmp.out.diff_pct[k] = None
              /\ cmp.out.total_a[k] # 0 =>
                    /\ cmp.out.diff_pct[k] # None
                    /\ ~cmp.out.diff_pct[k][1].raised
                    /\ cmp.out.diff_pct[k][1].num
                          = (cmp.out.total_b[k] - cmp.out.total_a[k]) * 100
                    /\ cmp.out.diff_pct[k][1].den = cmp.out.total_a[k]

\* period A sums clicks to 0, period B does not: a null percentage, no error
C10_Witness ==
    /\ cmp.op = "compare" /\ cmp.status = 200
    /\ cmp.out.total_a["clicks"] = 0 /\ cmp.out.total_b["clicks"] > 0
    /\ cmp.out.diff_pct["clicks"] = None
    /\ cmp.out.diff_abs["clicks"] = cmp.out.total_b["clicks"]

----------------------------------------------------------------------------
(* Autocomplete: get_distinct_values behind GET /api/options, one client.  *)

\* the result of SELECT DISTINCT col ... ORDER BY col: every value of the
\* column once, NULL included, NULL first and then in memcmp order
DistinctSorted(rows, col) ==
    LET V == {rows[i][col] : i \in 1..Len(rows)}
        n == Cardinality(V)
    IN  CHOOSE s \in [1..n -> V] :
            /\ \A i, j \in 1..n : s[i] = s[j] => i = j
            /\ \A i \in 1..(n - 1) : KeyLeq(col, s[i], s[i + 1])

\* LIMIT n of SQLite: a negative n is no upper bound
SqlLimit(rows, n) == IF n < 0 THEN rows ELSE SubSeq(rows, 1, Min(n, Len(rows)))

\* get_distinct_values(column, q, limit) on table t
GetDistinctValues(t, column, q, limit) ==
    IF column \notin {"account_id", "campaign_id"} THEN <<>>
    ELSE LET kept == IF q # <<>>
                     THEN SelectSeq(t, LAMBDA row :
                              ~IsNone(row[column]) /\ Like(Wrap(q), Val(row[column])))
                     ELSE t
             fetched == SqlLimit(DistinctSorted(kept, column), limit)
             nonNull == SelectSeq(fetched, LAMBDA v : ~IsNone(v))
         IN  [i \in 1..Len(nonNull) |-> Val(nonNull[i])]

\* field: an allowed column of either kind and a disallowed one
SampleFields == {"account_id", "campaign_id", "cost_micros"}

\* q: "", "a", "1", "_", "z"
SampleQs == {<<>>, <<97>>, <<49>>, <<95>>, <<122>>}

\* limit = int(request.args.get("limit", 100)): any integer the client sends
SampleLimits == {-1, 0, 1, 2, 100}

OptionRequests ==
    {[op |-> "options", column |-> f, q |-> q, limit |-> l] :
        f \in SampleFields, q \in SampleQs, l \in SampleLimits}

InitOptions ==
    /\ db = <<>>
    /\ metricsCsv \in {None} \cup {Some(c) : c \in SampleCsvs}
    /\ req \in OptionRequests
    /\ resp = [op |-> "none"] /\ pager = [on |-> FALSE]
    /\ ThreadsIdle /\ BatchIdle /\ CmpIdle /\ UploadIdle /\ TwinIdle

\* get_distinct_values(req.column, req.q, req.limit)
DoOptions ==
    /\ resp.op = "none"
    /\ db' = EnsureDbReady(db, metricsCsv)
    /\ resp' = [op |-> "options",
                values |-> GetDistinctValues(db', req.column, req.q, req.limit)]
    /\ UNCHANGED <<metricsCsv, pc, loc, hist, req, pager, nCols, rowsPerInsert, cmp, progress, upload, twin>>

SpecOptions == InitOptions /\ [][DoOptions]_vars

\* q occurs in s as a run of consecutive characters
Contains(q, s) == \E i \in 0..(Len(s) - Len(q)) : SubSeq(s, i + 1, i + Len(q)) = q

\* C11: for column in {account_id, campaign_id}, every q and every integer
\* limit, the list get_distinct_values returns has no duplicates, is sorted
\* ascending, holds only values that contain q as a substring when q is
\* non-empty, and is at most limit long.
C11_DistinctSortedContainsCapped ==
    (resp.op = "options" /\ req.column \in {"account_id", "campaign_id"}) =>
        LET v == resp.values
        IN  /\ \A i, j \in 1..Len(v) : v[i] = v[j] => i = j
            /\ \A i \in 1..(Len(v) - 1) : TextLess(v[i], v[i + 1])
            /\ req.q # <<>> => \A i \in 1..Len(v) : Contains(req.q, v[i])
            /\ Len(v) <= req.limit

----------------------------------------------------------------------------
(* Import of a path that does not exist *)

\* C13: when the source path does not exist, import_csv_chunks fails with
\* FileNotFoundError before its DELETE: the table after the failed call is the
\* table before it.
C13_MissingFileLeavesTable ==
    (resp.op = "import" /\ IsNone(resp.src)) =>
        /\ resp.status = "FileNotFoundError"
        /\ resp.total = 0
        /\ db = resp.prev.db

\* a missing path imported after the three-line file: its rows are still there
C13_Witness ==
    /\ resp.op = "import" /\ IsNone(resp.src)
    /\ resp.status = "FileNotFoundError"
    /\ resp.prev.status = "ok"
    /\ db = Imported(CsvA) /\ Len(db) = 3

----------------------------------------------------------------------------
(* Upload: POST /api/import, handler import_metrics of app.py, one request *)

\* the stages the progress callback of import_csv_file may report
CbStages == {"uploading", "importing", "finalizing", "done"}

\* import_csv_file(temp_path, progress_cb=_cb): the import of data_loader.py
\* with a progress callback; what it does to the table and how it ends
ImportCsvFileCb(t, src) == ImportCsvChunks(t, src)

\* the same call on import_csv_file(csv_path) of data_loader.py, which takes no
\* progress_cb: TypeError before the body runs
ImportCsvFileNoCb(t, src) == [db |-> t, status |-> "TypeError", total |-> 0]

\* faulty variant: the statement after the import runs whatever the import did
AfterImportAlways(status) == "replace"

\* where the try block goes on after import_csv_file: an exception leaves the
\* block for the except clause
AfterImport(status) == IF status = "ok" THEN "replace" ELSE "except"

\* the uploads: no session, a non-admin session, an admin without the file
\* field, an admin with a file not named .csv, an admin with a .csv file
Upload(role, hasFile, isCsv, file) ==
    [role |-> role, hasFile |-> hasFile, isCsv |-> isCsv, file |-> file]

UploadRequests ==
    {Upload("anon", FALSE, FALSE, NoCsv), Upload("user", FALSE, FALSE, NoCsv),
     Upload("admin", FALSE, FALSE, NoCsv), Upload("admin", TRUE, FALSE, CsvA)}
    \cup {Upload("admin", TRUE, TRUE, Val(f)) : f \in ImportFiles \ {None}}

\* pc: the handler's position; r: the request; temp: the file at temp_path;
\* status: how import_csv_file ended; raised: the statement of the try block
\* that raised; replaced: os.replace was done; before: METRICS_CSV at the
\* start; http: the status code returned
InitUpload ==
    /\ db \in {<<>>, Imported(CsvB)}
    /\ metricsCsv \in {None, Some(CsvB)}
    /\ progress \in {"unknown", "ready"}
    /\ \E r \in UploadRequests :
          upload = [pc |-> "start", r |-> r, temp |-> None, status |-> "none",
                    raised |-> "none", replaced |-> FALSE, before |-> metricsCsv,
                    http |-> 0]
    /\ ThreadsIdle /\ SeqIdle /\ BatchIdle /\ CmpIdle /\ TwinIdle

\* lines 211-218: the session checks, then set_progress(job_id, "uploading")
UploadBegin ==
    /\ upload.pc = "start"
    /\ IF upload.r.role = "anon"
       THEN upload' = [upload EXCEPT !.pc = "returned", !.http = 401] /\ progress' = progress
       ELSE IF upload.r.role # "admin"
       THEN upload' = [upload EXCEPT !.pc = "returned", !.http = 403] /\ progress' = progress
       ELSE upload' = [upload EXCEPT !.pc = "validate"] /\ progress' = "uploading"
    /\ UNCHANGED <<db, metricsCsv, pc, loc, hist, req, resp, pager, nCols, rowsPerInsert, cmp, twin>>

\* lines 220-227: the file field and its name
UploadValidate ==
    /\ upload.pc = "validate"
    /\ IF ~upload.r.hasFile \/ ~upload.r.isCsv
       THEN upload' = [upload EXCEPT !.pc = "returned", !.http = 400] /\ progress' = "error"
       ELSE upload' = [upload EXCEPT !.pc = "save"] /\ progress' = progress
    /\ UNCHANGED <<db, metricsCsv, pc, loc, hist, req, resp, pager, nCols, rowsPerInsert, cmp, twin>>

\* lines 229-234: f.save(temp_path); set_progress(job_id, "importing")
UploadSave ==
    /\ upload.pc = "save"
    /\ upload' = [upload EXCEPT !.pc = "import", !.temp = Some(upload.r.file)]
    /\ progress' = "importing"
    /\ UNCHANGED <<db, metricsCsv, pc, loc, hist, req, resp, pager, nCols, rowsPerInsert, cmp, twin>>

\* line 240: import_csv_file(temp_path, progress_cb=_cb), with either
\* import_csv_file; the callback leaves the stage it reported last
UploadImport ==
    /\ upload.pc = "import"
    /\ \E out \in {ImportCsvFileCb(db, upload.temp), ImportCsvFileNoCb(db, upload.temp)} :
          /\ db' = out.db
          /\ upload' = [upload EXCEPT !.pc = AfterImport(out.status),
                                       !.status = out.status,
                                       !.raised = IF out.status = "ok" THEN "none"
                                                  ELSE "import"]
          /\ progress' \in IF out.status = "TypeError" THEN {progress}
                           ELSE CbStages \cup {progress}
    /\ UNCHANGED <<metricsCsv, pc, loc, hist, req, resp, pager, nCols, rowsPerInsert, cmp, twin>>

\* lines 241-242: os.replace(temp_path, METRICS_CSV), which renames or raises
\* OSError, then set_progress(job_id, "finalizing")
UploadReplace ==
    /\ upload.pc = "replace"
    /\ \/ /\ metricsCsv' = upload.temp
          /\ upload' = [upload EXCEPT !.pc = "done", !.temp = None, !.replaced = TRUE]
          /\ progress' = "finalizing"
       \/ /\ metricsCsv' = metricsCsv
          /\ upload' = [upload EXCEPT !.pc = "except", !.raised = "replace"]
          /\ progress' = progress
    /\ UNCHANGED <<db, pc, loc, hist, req, resp, pager, nCols, rowsPerInsert, cmp, twin>>

\* lines 243-247: the except clause
UploadExcept ==
    /\ upload.pc = "except"
    /\ upload' = [upload EXCEPT !.pc = "returned", !.temp = None, !.http = 400]
    /\ progress' = "error"
    /\ UNCHANGED <<db, metricsCsv, pc, loc, hist, req, resp, pager, nCols, rowsPerInsert, cmp, twin>>

\* lines 249-250: set_progress(job_id, "done") and the 200 answer
UploadDone ==
    /\ upload.pc = "done"
    /\ upload' = [upload EXCEPT !.pc = "returned", !.http = 200]
    /\ progress' = "done"
    /\ UNCHANGED <<db, metricsCsv, pc, loc, hist, req, resp, pager, nCols, rowsPerInsert, cmp, twin>>

NextUpload ==
    \/ UploadBegin
    \/ UploadValidate
    \/ UploadSave
    \/ UploadImport
    \/ UploadReplace
    \/ UploadExcept
    \/ UploadDone

SpecUpload == InitUpload /\ [][NextUpload]_vars

\* C12: METRICS_CSV is replaced by the uploaded file only after
\* import_csv_file has returned successfully; whenever the import raised, the
\* handler returns with METRICS_CSV as it was, the temporary upload file
\* removed and the job's progress in stage "error", not "done".
C12_ReplaceOnlyAfterImportOk ==
    /\ upload.replaced => (upload.status = "ok" /\ metricsCsv = Some(upload.r.file))
    /\ ~upload.replaced => metricsCsv = upload.before
    /\ upload.raised = "import" => ~upload.replaced
    /\ (upload.pc = "returned" /\ upload.raised = "import") =>
          /\ metricsCsv = upload.before
          /\ IsNone(upload.temp)
          /\ progress = "error"
          /\ upload.http = 400

\* the malformed file uploaded over a loaded table: the import raised after
\* its DELETE, the official file is still the old one
C12_Witness ==
    /\ upload.pc = "returned" /\ upload.raised = "import"
    /\ upload.r.file = CsvMalformed
    /\ upload.before = Some(CsvB) /\ metricsCsv = Some(CsvB)
    /\ IsNone(upload.temp) /\ progress = "error"

----------------------------------------------------------------------------
(* Two runs of the read paths for a caller without the admin role, on two  *)
(* tables that differ in cost_micros only: db and twin.                    *)

\* the cost_micros values of the second table: NULL and 9
TwinCosts == {None, Some(9)}

\* the tables that are t but for the cost_micros of their rows
TwinsOf(t) ==
    {[i \in 1..Len(t) |-> [t[i] EXCEPT !.cost_micros = c[i]]] :
        c \in [1..Len(t) -> TwinCosts]}

\* requests of a non-admin session: include_cost is false
CostRequests ==
    {Request(f, sb, sd, p, 2, FALSE) :
        f \in {Filter(None, None, None, None), Filter(None, None, Some(<<97>>), None)},
        sb \in SampleSortBy, sd \in {None, Some(<<68, 101, 115, 99>>)}, p \in SamplePages}

\* every result query_metrics_sql(r) can give on table t
QueryResults(t, r) == {QueryMetricsSql(t, r, o) : o \in QueryOrderings(t, r)}

\* every sequence of lines stream_export_csv(r) can give on table t
ExportResults(t, r) == {StreamExportCsv(t, r, o) : o \in ExportOrderings(t, r)}

InitCost ==
    /\ \E c \in SampleCsvs :
          /\ metricsCsv = Some(c)
          /\ db = Imported(c)
          /\ twin \in TwinsOf(Imported(c))
    /\ req \in CostRequests
    /\ resp = [op |-> "none"] /\ pager = [on |-> FALSE]
    /\ ThreadsIdle /\ BatchIdle /\ CmpIdle /\ UploadIdle

\* query_metrics_sql(req) on each of the two tables
DoQueryBoth ==
    /\ resp.op = "none"
    /\ db' = EnsureDbReady(db, metricsCsv)
    /\ twin' = EnsureDbReady(twin, metricsCsv)
    /\ resp' = [op |-> "query", a |-> QueryResults(db', req), b |-> QueryResults(twin', req)]
    /\ UNCHANGED <<metricsCsv, pc, loc, hist, req, pager, nCols, rowsPerInsert, cmp,
                   progress, upload>>

\* list(stream_export_csv(req)) on each of the two tables
DoExportBoth ==
    /\ resp.op = "none"
    /\ req.page = 0
    /\ db' = EnsureDbReady(db, metricsCsv)
    /\ twin' = EnsureDbReady(twin, metricsCsv)
    /\ resp' = [op |-> "export", a |-> ExportResults(db', req), b |-> ExportResults(twin', req)]
    /\ UNCHANGED <<metricsCsv, pc, loc, hist, req, pager, nCols, rowsPerInsert, cmp,
                   progress, upload>>

NextCost == DoQueryBoth \/ DoExportBoth

SpecCost == InitCost /\ [][NextCost]_vars

\* C14: for two tables that differ only in the cost_micros of their rows and
\* every request made with include_cost = false, query_metrics_sql returns the
\* same rows in the same order, the same total and the same totals, and
\* stream_export_csv the same lines: what one table can answer, the other can.
C14_CostNoninterference ==
    resp.op \in {"query", "export"} => resp.a = resp.b

====
